---- MODULE Spec2Model ----
(***************************************************************************)
(* A model of github.com/akutz/lsx: the Config tree (Get / Scope / Len /  *)
(* MarshalJSON over a heap of shared maps), ParseModuleType, and the       *)
(* module and server registries with their read/write locks.               *)
(*                                                                         *)
(* Text is a sequence of one-character strings, so that strings.Split,     *)
(* strings.ToUpper, strings.EqualFold and the JSON encoder are computed    *)
(* character by character.                                                 *)
(***************************************************************************)
EXTENDS Integers, Sequences, FiniteSets, TLC

VARIABLES
    heap,       \* map object id -> its key/value content (Go maps are references)
    trees,      \* ids of the Config values the callers hold (root and scoped)
    env,        \* the process environment: variable name -> unset / text
    nscopes,    \* number of Scope calls made so far
    call,       \* the last Config call: operation, receiver, argument, result
    pin,        \* the value handed to ParseModuleType
    pout,       \* what ParseModuleType returned for it, once it has
    mods,       \* the module registry: module type -> name -> constructor
    modsRWL,    \* the lock of mods: its writer and its readers
    serverCtors,    \* the server registry: name -> constructor
    serverCtorsRWL, \* the lock of serverCtors
    frames,     \* each goroutine's call: where it is, its arguments, its result
    ncalls,     \* number of registry calls begun so far
    fatal,      \* the runtime has stopped the process
    lastMod,    \* history: the constructor last registered for each (type, name)
    streams     \* per Servers caller: its producer, its channel, what it received

cfgVars == <<heap, trees, env, nscopes, call>>

parseVars == <<pin, pout>>

regVars ==
    <<mods, modsRWL, serverCtors, serverCtorsRWL, frames, ncalls, fatal, lastMod, streams>>

vars ==
    <<heap, trees, env, nscopes, call, pin, pout,
      mods, modsRWL, serverCtors, serverCtorsRWL, frames, ncalls, fatal,
      lastMod, streams>>

(***************************************************************************)
(* Bounds                                                                  *)
(***************************************************************************)
MaxScopes == 2

(***************************************************************************)
(* Text                                                                    *)
(***************************************************************************)
LowerLetters ==
    <<"a", "b", "c", "d", "e", "f", "g", "h", "i", "j", "k", "l", "m",
      "n", "o", "p", "q", "r", "s", "t", "u", "v", "w", "x", "y", "z">>

UpperLetters ==
    <<"A", "B", "C", "D", "E", "F", "G", "H", "I", "J", "K", "L", "M",
      "N", "O", "P", "Q", "R", "S", "T", "U", "V", "W", "X", "Y", "Z">>

\* The bytes that occur in the model's texts, in ASCII order.
Ascii ==
    <<"!", "\"", ",", "-", ".", "0", "1", "2", "3", "4", "5", "6", "7", "8",
      "9", ":", "<", ">", "@">> \o UpperLetters \o <<"[", "]", "_">>
      \o LowerLetters \o <<"{", "}">>

Range(s) == {s[i] : i \in 1..Len(s)}

CharCode == [c \in Range(Ascii) |-> CHOOSE i \in 1..Len(Ascii) : Ascii[i] = c]

\* unicode.ToUpper / unicode.ToLower on the bytes above
UpperOf ==
    [c \in Range(Ascii) |->
        IF \E i \in 1..26 : LowerLetters[i] = c
        THEN UpperLetters[CHOOSE i \in 1..26 : LowerLetters[i] = c]
        ELSE c]

LowerOf ==
    [c \in Range(Ascii) |->
        IF \E i \in 1..26 : UpperLetters[i] = c
        THEN LowerLetters[CHOOSE i \in 1..26 : UpperLetters[i] = c]
        ELSE c]

ToUpperChar(c) == UpperOf[c]

ToLowerChar(c) == LowerOf[c]

\* strings.ToUpper
ToUpper(s) == [i \in 1..Len(s) |-> ToUpperChar(s[i])]

\* strings.EqualFold
EqualFold(a, b) ==
    /\ Len(a) = Len(b)
    /\ \A i \in 1..Len(a) : ToLowerChar(a[i]) = ToLowerChar(b[i])

\* strings.Replace(s, old, new, -1) for one-byte old and new
Replace(s, old, new) == [i \in 1..Len(s) |-> IF s[i] = old THEN new ELSE s[i]]

RECURSIVE SplitFrom(_, _, _, _)
SplitFrom(s, sep, i, cur) ==
    IF i > Len(s) THEN <<cur>>
    ELSE IF s[i] = sep THEN <<cur>> \o SplitFrom(s, sep, i + 1, <<>>)
    ELSE SplitFrom(s, sep, i + 1, Append(cur, s[i]))

\* strings.Split(s, sep) for a one-byte separator
Split(s, sep) == SplitFrom(s, sep, 1, <<>>)

RECURSIVE TextLessFrom(_, _, _)
TextLessFrom(a, b, i) ==
    IF i > Len(b) THEN FALSE
    ELSE IF i > Len(a) THEN TRUE
    ELSE IF a[i] = b[i] THEN TextLessFrom(a, b, i + 1)
    ELSE CharCode[a[i]] < CharCode[b[i]]

\* byte-wise a < b, the order encoding/json sorts map keys by
TextLess(a, b) == TextLessFrom(a, b, 1)

RECURSIVE SortedKeys(_)
SortedKeys(S) ==
    IF S = {} THEN <<>>
    ELSE LET m == CHOOSE x \in S : \A y \in S : x = y \/ TextLess(x, y)
         IN  <<m>> \o SortedKeys(S \ {m})

Reverse(s) == [i \in 1..Len(s) |-> s[Len(s) + 1 - i]]

\* The orders in which one range over a Go map may enumerate its keys.
Orders == {"asc", "desc"}

\* for ... range m / reflect.Value.MapKeys(): the keys of m in the order ord
MapKeys(m, ord) ==
    IF ord = "asc" THEN SortedKeys(DOMAIN m) ELSE Reverse(SortedKeys(DOMAIN m))

(***************************************************************************)
(* The texts of the example configuration and of the tests                 *)
(***************************************************************************)
configScopeKey == <<"@", "s", "c", "o", "p", "e", "@">>
configParentKey == <<"@", "p", "a", "r", "e", "n", "t", "@">>
envPrefix == <<"L", "S", "X", "_">>

\* the texts of the example configuration, of the tests and of the module types
txt ==
    [ logging |-> <<"l", "o", "g", "g", "i", "n", "g">>,
      level |-> <<"l", "e", "v", "e", "l">>,
      servers |-> <<"s", "e", "r", "v", "e", "r", "s">>,
      services |-> <<"s", "e", "r", "v", "i", "c", "e", "s">>,
      name |-> <<"n", "a", "m", "e">>,
      addrs |-> <<"a", "d", "d", "r", "s">>,
      array |-> <<"a", "r", "r", "a", "y">>,
      data |-> <<"d", "a", "t", "a">>,
      logLevel |-> <<"l", "o", "g", "L", "e", "v", "e", "l">>,
      loglevel |-> <<"l", "o", "g", "l", "e", "v", "e", "l">>,
      world |-> <<"w", "o", "r", "l", "d">>,
      nosuch |-> <<"n", "o", "s", "u", "c", "h">>,
      LOGGING |-> <<"L", "O", "G", "G", "I", "N", "G">>,
      Level |-> <<"L", "e", "v", "e", "l">>,
      Name |-> <<"N", "a", "m", "e">>,
      World |-> <<"W", "o", "r", "l", "d">>,
      debug |-> <<"d", "e", "b", "u", "g">>,
      info |-> <<"i", "n", "f", "o">>,
      svr00 |-> <<"s", "v", "r", "0", "0">>,
      svc00 |-> <<"s", "v", "c", "0", "0">>,
      svc01 |-> <<"s", "v", "c", "0", "1">>,
      c3p0 |-> <<"c", "3", "p", "0">>,
      hello |-> <<"h", "e", "l", "l", "o">>,
      two |-> <<"t", "w", "o">>,
      tcp |-> <<"t", "c", "p">>,
      items |-> <<"i", "t", "e", "m", "s">>,
      rank |-> <<"r", "a", "n", "k">>,
      Hello |-> <<"H", "e", "l", "l", "o">>,
      dup |-> <<"d", "u", "p">>,
      DUP |-> <<"D", "U", "P">>,
      RANK |-> <<"R", "A", "N", "K">>,
      quoted |-> <<"q", "\"", "t">>,
      LSX_LOGGING_LEVEL |-> <<"L", "S", "X", "_", "L", "O", "G", "G", "I", "N", "G", "_", "L", "E", "V", "E", "L">>,
      LSX_LOGGING |-> <<"L", "S", "X", "_", "L", "O", "G", "G", "I", "N", "G">>,
      client |-> <<"c", "l", "i", "e", "n", "t">>,
      config |-> <<"c", "o", "n", "f", "i", "g">>,
      logger |-> <<"l", "o", "g", "g", "e", "r">>,
      server |-> <<"s", "e", "r", "v", "e", "r">>,
      volume |-> <<"v", "o", "l", "u", "m", "e">>,
      invalid |-> <<"i", "n", "v", "a", "l", "i", "d">>,
      volumeService |-> <<"v", "o", "l", "u", "m", "e", "S", "e", "r", "v", "i", "c", "e">> ]


\* a.b
Dot(a, b) == a \o <<".">> \o b

(***************************************************************************)
(* The value model: what an interface{} inside a Config may hold           *)
(***************************************************************************)
Nil == [t |-> "nil"]
Bool(b) == [t |-> "bool", b |-> b]
Num(n) == [t |-> "num", n |-> n]
Str(s) == [t |-> "str", s |-> s]
Slice(els) == [t |-> "slice", els |-> els]
\* map[string]interface{}: a reference to the map object id
Map(id) == [t |-> "map", id |-> id]
\* the same kind of reference, of the named type Config
Cfg(id) == [t |-> "cfg", id |-> id]
\* a struct value: its fields in declaration order
Struct(flds) == [t |-> "struct", flds |-> flds]
Fld(n, v) == [n |-> n, v |-> v]
Ptr(v) == [t |-> "ptr", to |-> v]

\* Config(nil), what Scope and Parent return for "none"
NilConfig == [t |-> "nilcfg"]

\* a goroutine stack overflow (unbounded recursion): a fatal error, no result
StackOverflow == [t |-> "stackoverflow"]

(***************************************************************************)
(* The example configuration (config_example.json) as json.Unmarshal      *)
(* builds it, plus the "array" and "data" members the tests add.           *)
(***************************************************************************)
RootId == 0
LoggingId == 1
Svr00Id == 2
Svc00Id == 3
Svc00LoggingId == 4
C3p0Id == 5
HelloWorldId == 6
DataWorldId == 7

testStruct(name, worldId) == Struct(<<Fld(txt.Name, Str(name)), Fld(txt.World, Map(worldId))>>)

exampleConfig ==
    [id \in {RootId, LoggingId, Svr00Id, Svc00Id, Svc00LoggingId, C3p0Id,
             HelloWorldId, DataWorldId} |->
        CASE id = RootId ->
                (txt.logging :> Map(LoggingId))
             @@ (txt.servers :> Slice(<<Map(Svr00Id)>>))
             @@ (txt.services :> Slice(<<Map(Svc00Id)>>))
             @@ (txt.array :> Slice(<<Num(1), Str(txt.two), Map(C3p0Id),
                                    Ptr(testStruct(txt.hello, HelloWorldId))>>))
             @@ (txt.data :> Ptr(testStruct(txt.hello, DataWorldId)))
          [] id = LoggingId -> (txt.level :> Str(txt.debug))
          [] id = Svr00Id ->
                (txt.name :> Str(txt.svr00)) @@ (txt.addrs :> Slice(<<Str(txt.tcp)>>))
          [] id = Svc00Id ->
                (txt.name :> Str(txt.svc00)) @@ (txt.logging :> Map(Svc00LoggingId))
          [] id = Svc00LoggingId -> (txt.level :> Str(txt.info))
          [] id = C3p0Id -> (txt.name :> Str(txt.c3p0))
          [] id = HelloWorldId -> (txt.logLevel :> Num(10))
          [] id = DataWorldId -> (txt.logLevel :> Num(10))]

\* A second configuration: a sequence whose elements share a name up to
\* letter case, the second with two keys that differ in letter case only and
\* a key that holds a double quote, and a record whose Hello field is declared
\* before its Name.
Dup1Id == 1
Dup2Id == 2

helloFirst(hello, name) == Struct(<<Fld(txt.Hello, Num(hello)), Fld(txt.Name, Str(name))>>)

itemsConfig ==
    [id \in {RootId, Dup1Id, Dup2Id} |->
        CASE id = RootId ->
                (txt.items :> Slice(<<Map(Dup1Id), Map(Dup2Id), helloFirst(7, txt.hello)>>))
          [] id = Dup1Id -> (txt.name :> Str(txt.dup)) @@ (txt.rank :> Num(1))
          [] id = Dup2Id ->
                (txt.name :> Str(txt.DUP)) @@ (txt.rank :> Num(2)) @@ (txt.RANK :> Num(3))
             @@ (txt.quoted :> Num(4))]

Roots == {exampleConfig, itemsConfig}

(***************************************************************************)
(* The environment                                                         *)
(***************************************************************************)
Unset == [set |-> FALSE, v |-> <<>>]
SetTo(v) == [set |-> TRUE, v |-> v]

\* os.Getenv: the value, or the empty text when the variable is not set
Getenv(e, name) == IF name \in DOMAIN e /\ e[name].set THEN e[name].v ELSE <<>>

\* getEnvVarName without the ToUpper call
getEnvVarName_NoUpper(path) == envPrefix \o Replace(path, ".", "_")

getEnvVarName(path) == envPrefix \o Replace(ToUpper(path), ".", "_")

(***************************************************************************)
(* Config.get                                                              *)
(***************************************************************************)
RECURSIVE derefValue(_)
derefValue(v) == IF v.t = "ptr" /\ v.to # Nil THEN derefValue(v.to) ELSE v

\* toStringWithOpts(v, false): only the string-related types yield text
toStringWithOpts(v) == IF v.t = "str" THEN v.s ELSE <<>>

\* the reflect.Map case: the first key, in range order, that folds to tok
MapScan(m, ord, tok) ==
    LET keys == MapKeys([k \in {x \in DOMAIN m : EqualFold(tok, x)} |-> m[k]], ord) IN
    IF keys = <<>> THEN Nil ELSE m[keys[1]]

RECURSIVE StructScan(_, _, _)
\* the reflect.Struct case: the first field whose name folds to tok
StructScan(flds, i, tok) ==
    IF i > Len(flds) THEN Nil
    ELSE IF EqualFold(tok, flds[i].n) THEN flds[i].v
    ELSE StructScan(flds, i + 1, tok)

\* ElemMapMatch comparing the name with == in place of strings.EqualFold
ElemMapMatch_Exact(m, tok) ==
    \E key \in DOMAIN m :
        /\ EqualFold(txt.name, key)
        /\ tok = toStringWithOpts(derefValue(m[key]))

\* a map element of a sequence: selected whole when a key folding to "name"
\* holds text that folds to tok
ElemMapMatch(m, tok) ==
    \E key \in DOMAIN m :
        /\ EqualFold(txt.name, key)
        /\ EqualFold(tok, toStringWithOpts(derefValue(m[key])))

\* a struct element matched by its name field before any other field, in
\* whatever order the fields are declared
ElemStructScan_NameFirst(el, i, tok, next) ==
    IF \E j \in 1..Len(el.flds) :
          /\ EqualFold(txt.name, el.flds[j].n)
          /\ el.flds[j].v.t = "str"
          /\ EqualFold(tok, el.flds[j].v.s)
    THEN el
    ELSE IF \E j \in 1..Len(el.flds) : EqualFold(tok, el.flds[j].n)
    THEN StructScan(el.flds, 1, tok)
    ELSE next

RECURSIVE ElemStructScan(_, _, _, _)
\* a struct element of a sequence: its fields in declaration order
ElemStructScan(el, i, tok, next) ==
    IF i > Len(el.flds) THEN next
    ELSE LET f == el.flds[i] IN
         IF EqualFold(txt.name, f.n)
         THEN IF f.v.t = "str" /\ EqualFold(tok, f.v.s)
              THEN el
              ELSE ElemStructScan(el, i + 1, tok, next)
         ELSE IF EqualFold(tok, f.n) THEN f.v
         ELSE ElemStructScan(el, i + 1, tok, next)

RECURSIVE SliceScan_First(_, _, _, _, _)
\* a scan of the sequence that stops at the first element that matches
SliceScan_First(h, els, x, tok, next) ==
    IF x > Len(els) THEN next
    ELSE LET el == derefValue(els[x])
             hit == IF el.t \in {"map", "cfg"} THEN ElemMapMatch(h[el.id], tok)
                    ELSE el.t = "struct" /\ ElemStructScan(el, 1, tok, Nil) # Nil
         IN  IF hit
             THEN IF el.t = "struct" THEN ElemStructScan(el, 1, tok, Nil) ELSE el
             ELSE SliceScan_First(h, els, x + 1, tok, next)

RECURSIVE SliceScan(_, _, _, _, _)
\* the reflect.Array / reflect.Slice case: every element is visited, and a
\* later match replaces an earlier one
SliceScan(h, els, x, tok, next) ==
    IF x > Len(els) THEN next
    ELSE LET el == derefValue(els[x])
             nx == IF el.t \in {"map", "cfg"}
                   THEN IF ElemMapMatch(h[el.id], tok) THEN el ELSE next
                   ELSE IF el.t = "struct"
                   THEN ElemStructScan(el, 1, tok, next)
                   ELSE next
         IN  SliceScan(h, els, x + 1, tok, nx)

\* one iteration of the token loop: the cursor for the next token
Step(h, ord, cur, tok) ==
    LET curVal == derefValue(cur) IN
    IF curVal.t \in {"map", "cfg"}
    THEN MapScan(h[curVal.id], ord, tok)
    ELSE IF curVal.t = "slice" THEN SliceScan(h, curVal.els, 1, tok, Nil)
    ELSE IF curVal.t = "struct" THEN StructScan(curVal.flds, 1, tok)
    ELSE Nil

RECURSIVE Walk(_, _, _, _, _)
\* the token loop of get: stops when the cursor becomes nil
Walk(h, ord, cur, tokens, i) ==
    IF i > Len(tokens) THEN cur
    ELSE LET next == Step(h, ord, cur, tokens[i]) IN
         IF next = Nil THEN Nil ELSE Walk(h, ord, next, tokens, i + 1)

\* Config.Parent
Parent(h, c) ==
    IF configParentKey \notin DOMAIN h[c] THEN NilConfig
    ELSE LET pmap == h[c][configParentKey] IN
         IF pmap.t \in {"cfg", "map"} THEN Cfg(pmap.id) ELSE NilConfig

RECURSIVE getFrom(_, _, _, _, _, _, _)
\* get on the Config c; active holds the Configs whose get is still on the
\* call stack, so asking one of them again recurses without end
getFrom(h, e, ord, c, path, askParent, active) ==
    LET v == Getenv(e, getEnvVarName(path)) IN
    IF v # <<>> THEN Str(v)
    ELSE LET cur == Walk(h, ord, Cfg(c), Split(path, "."), 1) IN
         IF cur # Nil THEN cur
         ELSE IF ~askParent THEN Nil
         ELSE LET parent == Parent(h, c) IN
              IF parent = NilConfig THEN Nil
              ELSE IF parent.id \in active \cup {c} THEN StackOverflow
              ELSE getFrom(h, e, ord, parent.id, path, askParent, active \cup {c})

get(h, e, ord, c, path, askParent) == getFrom(h, e, ord, c, path, askParent, {})

\* Config.Get
Get(h, e, ord, c, path) == get(h, e, ord, c, path, TRUE)

(***************************************************************************)
(* Config.Scope                                                            *)
(***************************************************************************)
\* m[k] = v on a Go map
MapAssign(m, k, v) == [x \in DOMAIN m \cup {k} |-> IF x = k THEN v ELSE m[x]]

\* Scope calling get with askParent true
Scope_AskParent(h, e, ord, c, scope) ==
    LET v == get(h, e, ord, c, scope, TRUE) IN
    IF v.t # "map" THEN [ret |-> NilConfig, heap |-> h]
    ELSE [ret |-> Cfg(v.id),
          heap |-> [h EXCEPT ![v.id] =
                      MapAssign(MapAssign(@, configParentKey, Cfg(c)),
                                configScopeKey, Str(scope))]]

\* Config.Scope: the Config it returns and the heap it leaves; the two
\* assignments go to the resolved map itself
Scope(h, e, ord, c, scope) ==
    LET v == get(h, e, ord, c, scope, FALSE) IN
    IF v.t # "map" THEN [ret |-> NilConfig, heap |-> h]
    ELSE [ret |-> Cfg(v.id),
          heap |-> [h EXCEPT ![v.id] =
                      MapAssign(MapAssign(@, configParentKey, Cfg(c)),
                                configScopeKey, Str(scope))]]

(***************************************************************************)
(* Config.Len                                                              *)
(***************************************************************************)
\* Len without the two decrements: len(c)
ConfigLen_Raw(h, c) == Cardinality(DOMAIN h[c])

ConfigLen(h, c) ==
    Cardinality(DOMAIN h[c])
      - (IF configScopeKey \in DOMAIN h[c] THEN 1 ELSE 0)
      - (IF configParentKey \in DOMAIN h[c] THEN 1 ELSE 0)

(***************************************************************************)
(* Config.MarshalJSON and encoding/json                                    *)
(***************************************************************************)
Digits == <<"0", "1", "2", "3", "4", "5", "6", "7", "8", "9">>

RECURSIVE NatText(_)
NatText(n) == IF n < 10 THEN <<Digits[n + 1]>> ELSE NatText(n \div 10) \o <<Digits[(n % 10) + 1]>>

\* the base-10 text of an integer
IntText(n) == IF n < 0 THEN <<"-">> \o NatText(-n) ELSE NatText(n)

Quote(s) == <<"\"">> \o s \o <<"\"">>

\* what an encoding holds in place of a result when the encoder never returns
Overflowed == <<"STACKOVERFLOW">>

RECURSIVE Escape(_)
\* the escaping encoding/json applies to the text of a string and of a map
\* key: a backslash before a double quote and before a backslash
Escape(s) ==
    IF s = <<>> THEN <<>>
    ELSE (IF Head(s) \in {"\"", "\\"} THEN <<"\\", Head(s)>> ELSE <<Head(s)>>)
         \o Escape(Tail(s))

RECURSIVE Marshal(_, _, _, _)
RECURSIVE MarshalJSONFrom(_, _, _, _)
RECURSIVE MarshalElems(_, _, _, _, _)
RECURSIVE MarshalMapEntries(_, _, _, _, _, _)
RECURSIVE MarshalFields(_, _, _, _, _)
RECURSIVE ConfigEntries(_, _, _, _, _, _, _, _)

MarshalElems(h, ord, els, i, active) ==
    IF i > Len(els) THEN <<>>
    ELSE (IF i > 1 THEN <<",">> ELSE <<>>)
         \o Marshal(h, ord, els[i], active)
         \o MarshalElems(h, ord, els, i + 1, active)

\* a map[string]interface{}: encoding/json writes its keys sorted
MarshalMapEntries(h, ord, m, keys, i, active) ==
    IF i > Len(keys) THEN <<>>
    ELSE (IF i > 1 THEN <<",">> ELSE <<>>)
         \o Quote(Escape(keys[i])) \o <<":">> \o Marshal(h, ord, m[keys[i]], active)
         \o MarshalMapEntries(h, ord, m, keys, i + 1, active)

MarshalFields(h, ord, flds, i, active) ==
    IF i > Len(flds) THEN <<>>
    ELSE (IF i > 1 THEN <<",">> ELSE <<>>)
         \o Quote(flds[i].n) \o <<":">> \o Marshal(h, ord, flds[i].v, active)
         \o MarshalFields(h, ord, flds, i + 1, active)

\* json.Marshal(v); active holds the maps whose encoding is still on the
\* call stack, so meeting one of them again recurses without end
Marshal(h, ord, v, active) ==
    CASE v.t = "nil" -> <<"n", "u", "l", "l">>
      [] v.t = "bool" -> IF v.b THEN <<"t", "r", "u", "e">> ELSE <<"f", "a", "l", "s", "e">>
      [] v.t = "num" -> IntText(v.n)
      [] v.t = "str" -> Quote(Escape(v.s))
      [] v.t = "ptr" -> Marshal(h, ord, v.to, active)
      [] v.t = "slice" -> <<"[">> \o MarshalElems(h, ord, v.els, 1, active) \o <<"]">>
      [] v.t = "struct" -> <<"{">> \o MarshalFields(h, ord, v.flds, 1, active) \o <<"}">>
      [] v.t = "map" ->
            IF v.id \in active THEN Overflowed
            ELSE <<"{">>
                 \o MarshalMapEntries(h, ord, h[v.id], SortedKeys(DOMAIN h[v.id]), 1,
                                      active \cup {v.id})
                 \o <<"}">>
      [] v.t = "cfg" -> MarshalJSONFrom(h, ord, v.id, active)

\* the for k, v := range c loop of Config.MarshalJSON
ConfigEntries(h, ord, m, keys, i, cx, cl, active) ==
    IF i > Len(keys) THEN <<>>
    ELSE IF keys[i] = configScopeKey \/ keys[i] = configParentKey
    THEN ConfigEntries(h, ord, m, keys, i + 1, cx, cl, active)
    ELSE Quote(keys[i]) \o <<":">> \o Marshal(h, ord, m[keys[i]], active)
         \o (IF cx < cl - 1 THEN <<",">> ELSE <<>>)
         \o ConfigEntries(h, ord, m, keys, i + 1, cx + 1, cl, active)

MarshalJSONFrom(h, ord, c, active) ==
    IF c \in active THEN Overflowed
    ELSE LET m == h[c]
             cl == Cardinality(DOMAIN m)
                     - (IF configScopeKey \in DOMAIN m /\ m[configScopeKey].t = "str"
                        THEN 1 ELSE 0)
                     - (IF configParentKey \in DOMAIN m /\ m[configParentKey].t = "cfg"
                        THEN 1 ELSE 0)
         IN  <<"{">>
             \o ConfigEntries(h, ord, m, MapKeys(m, ord), 1, 0, cl, active \cup {c})
             \o <<"}">>

\* Config.MarshalJSON: the encoded text, or no result at all
MarshalJSON(h, ord, c) ==
    LET text == MarshalJSONFrom(h, ord, c, {}) IN
    IF "STACKOVERFLOW" \in Range(text) THEN StackOverflow ELSE Str(text)

(***************************************************************************)
(* encoding/json: Unmarshal, Indent and Compact                            *)
(***************************************************************************)
\* the byte of t at i, or no byte past its end
CharAt(t, i) == IF i \in 1..Len(t) THEN t[i] ELSE ""

RECURSIVE SkipWs(_, _)
\* the first place from i on that holds no white space
SkipWs(t, i) == IF CharAt(t, i) \in {" ", "\n", "\t", "\r"} THEN SkipWs(t, i + 1) ELSE i

\* the decoder's syntax error
NoParse == [ok |-> FALSE, v |-> Nil, pos |-> 0, h |-> <<>>]

RECURSIVE ParseString(_, _, _)
\* the text of a string whose opening quote precedes i; of the escapes, the
\* two that Escape writes and the solidus
ParseString(t, i, acc) ==
    IF i > Len(t) THEN NoParse
    ELSE IF t[i] = "\"" THEN [ok |-> TRUE, v |-> Str(acc), pos |-> i + 1, h |-> <<>>]
    ELSE IF t[i] = "\\"
    THEN IF CharAt(t, i + 1) \in {"\"", "\\", "/"}
         THEN ParseString(t, i + 2, Append(acc, t[i + 1]))
         ELSE NoParse
    ELSE ParseString(t, i + 1, Append(acc, t[i]))

RECURSIVE ParseDigits(_, _, _)
\* the number written in the digits from i on, after the value n so far
ParseDigits(t, i, n) ==
    IF \E d \in 1..10 : Digits[d] = CharAt(t, i)
    THEN ParseDigits(t, i + 1, 10 * n + (CHOOSE d \in 1..10 : Digits[d] = t[i]) - 1)
    ELSE [n |-> n, pos |-> i]

RECURSIVE ParseValue(_, _, _)
RECURSIVE ParseElems(_, _, _, _)
RECURSIVE ParseMembers(_, _, _, _)

\* the elements of an array from i on, after those of acc
ParseElems(t, i, h, acc) ==
    LET e == ParseValue(t, i, h) IN
    IF ~e.ok THEN NoParse
    ELSE LET n == SkipWs(t, e.pos) IN
         IF CharAt(t, n) = ","
         THEN ParseElems(t, n + 1, e.h, Append(acc, e.v))
         ELSE IF CharAt(t, n) = "]"
         THEN [ok |-> TRUE, v |-> Slice(Append(acc, e.v)), pos |-> n + 1, h |-> e.h]
         ELSE NoParse

\* the members of an object from i on, after those of m; a key met again
\* replaces its value
ParseMembers(t, i, h, m) ==
    LET j == SkipWs(t, i)
        k == IF CharAt(t, j) = "\"" THEN ParseString(t, j + 1, <<>>) ELSE NoParse
        c == SkipWs(t, k.pos)
        e == IF k.ok /\ CharAt(t, c) = ":" THEN ParseValue(t, c + 1, h) ELSE NoParse
        n == SkipWs(t, e.pos)
        mm == [x \in DOMAIN m \cup {k.v.s} |-> IF x = k.v.s THEN e.v ELSE m[x]]
    IN  IF ~e.ok THEN NoParse
        ELSE IF CharAt(t, n) = "," THEN ParseMembers(t, n + 1, e.h, mm)
        ELSE IF CharAt(t, n) = "}"
        THEN LET id == IF DOMAIN e.h = {} THEN 0
                       ELSE 1 + CHOOSE x \in DOMAIN e.h : \A y \in DOMAIN e.h : y <= x
             IN  [ok |-> TRUE, v |-> Map(id), pos |-> n + 1,
                  h |-> [x \in DOMAIN e.h \cup {id} |-> IF x = id THEN mm ELSE e.h[x]]]
        ELSE NoParse

\* the value that starts at i, decoded as into an interface{}: an object is
\* a new map of the heap h, an array a slice
ParseValue(t, i0, h) ==
    LET i == SkipWs(t, i0)
        c == CharAt(t, i)
        Has(w) == i + Len(w) - 1 <= Len(t) /\ SubSeq(t, i, i + Len(w) - 1) = w
        Lit(v, w) == [ok |-> TRUE, v |-> v, pos |-> i + Len(w), h |-> h]
    IN  CASE c = "{" ->
                IF CharAt(t, SkipWs(t, i + 1)) = "}"
                THEN LET id == IF DOMAIN h = {} THEN 0
                               ELSE 1 + CHOOSE x \in DOMAIN h : \A y \in DOMAIN h : y <= x
                     IN  [ok |-> TRUE, v |-> Map(id), pos |-> SkipWs(t, i + 1) + 1,
                          h |-> [x \in DOMAIN h \cup {id} |-> IF x = id THEN <<>> ELSE h[x]]]
                ELSE ParseMembers(t, i + 1, h, <<>>)
          [] c = "[" ->
                IF CharAt(t, SkipWs(t, i + 1)) = "]"
                THEN [ok |-> TRUE, v |-> Slice(<<>>), pos |-> SkipWs(t, i + 1) + 1, h |-> h]
                ELSE ParseElems(t, i + 1, h, <<>>)
          [] c = "\"" -> [ParseString(t, i + 1, <<>>) EXCEPT !.h = h]
          [] c = "-" ->
                LET d == ParseDigits(t, i + 1, 0) IN
                IF d.pos = i + 1 THEN NoParse
                ELSE [ok |-> TRUE, v |-> Num(-d.n), pos |-> d.pos, h |-> h]
          [] c \in Range(Digits) ->
                LET d == ParseDigits(t, i, 0) IN
                [ok |-> TRUE, v |-> Num(d.n), pos |-> d.pos, h |-> h]
          [] Has(<<"t", "r", "u", "e">>) -> Lit(Bool(TRUE), <<"t", "r", "u", "e">>)
          [] Has(<<"f", "a", "l", "s", "e">>) -> Lit(Bool(FALSE), <<"f", "a", "l", "s", "e">>)
          [] Has(<<"n", "u", "l", "l">>) -> Lit(Nil, <<"n", "u", "l", "l">>)
          [] OTHER -> NoParse

\* json.Unmarshal(text, &config) into an empty Config: the decoded heap and
\* the tree in it, or a syntax error
Unmarshal(text) ==
    LET r == ParseValue(text, 1, <<>>) IN
    IF r.ok /\ r.v.t = "map" /\ SkipWs(text, r.pos) = Len(text) + 1
    THEN [ok |-> TRUE, h |-> r.h, c |-> r.v.id]
    ELSE [ok |-> FALSE, h |-> <<>>, c |-> 0]

\* one byte c through the scanner of json.Compact or json.Indent (prefix "",
\* indent of two spaces): the scanner's next state and the bytes written
ScanStep(mode, c, st) ==
    LET nl(d) == <<"\n">> \o [i \in 1..(2 * d) |-> " "]
        open == st.need /\ c \notin {"}", "]"}
        d1 == IF open THEN st.depth + 1 ELSE st.depth
        pre == IF open THEN nl(d1) ELSE <<>>
        to(str, need, depth) == [str |-> str, esc |-> FALSE, need |-> need, depth |-> depth]
    IN  IF st.str
        THEN [st |-> [st EXCEPT !.esc = ~st.esc /\ c = "\\", !.str = st.esc \/ c # "\""],
              out |-> <<c>>]
        ELSE IF c \in {" ", "\n", "\t", "\r"} THEN [st |-> st, out |-> <<>>]
        ELSE IF mode = "compact"
        THEN [st |-> [st EXCEPT !.str = (c = "\"")], out |-> <<c>>]
        ELSE CASE c \in {"{", "["} -> [st |-> to(FALSE, TRUE, d1), out |-> pre \o <<c>>]
               [] c = "," -> [st |-> to(FALSE, FALSE, d1), out |-> pre \o <<c>> \o nl(d1)]
               [] c = ":" -> [st |-> to(FALSE, FALSE, d1), out |-> pre \o <<":", " ">>]
               [] c \in {"}", "]"} ->
                     IF st.need THEN [st |-> to(FALSE, FALSE, st.depth), out |-> <<c>>]
                     ELSE [st |-> to(FALSE, FALSE, st.depth - 1),
                           out |-> nl(st.depth - 1) \o <<c>>]
               [] OTHER -> [st |-> to(c = "\"", FALSE, d1), out |-> pre \o <<c>>]

RECURSIVE ScanRange(_, _, _, _, _)
\* the bytes lo..hi of t through the scanner, one after the other
ScanRange(mode, t, lo, hi, st) ==
    IF lo > hi THEN [st |-> st, out |-> <<>>]
    ELSE IF lo = hi THEN ScanStep(mode, t[lo], st)
    ELSE LET mid == (lo + hi) \div 2
             l == ScanRange(mode, t, lo, mid, st)
             r == ScanRange(mode, t, mid + 1, hi, l.st)
         IN  [out |-> l.out \o r.out, st |-> r.st]

\* json.Indent(dst, text, "", "  ") and what json.MarshalIndent does to the
\* text of MarshalJSON
Indent(text) ==
    ScanRange("indent", text, 1, Len(text),
              [str |-> FALSE, esc |-> FALSE, need |-> FALSE, depth |-> 0]).out

\* json.Compact(dst, text)
Compact(text) ==
    ScanRange("compact", text, 1, Len(text),
              [str |-> FALSE, esc |-> FALSE, need |-> FALSE, depth |-> 0]).out

(***************************************************************************)
(* The Config operations as actions                                        *)
(***************************************************************************)
ScopePaths ==
    { txt.logging, Dot(txt.services, txt.svc00), Dot(txt.servers, txt.svr00),
      Dot(txt.services, txt.svc01), Dot(txt.logging, txt.level), txt.servers, txt.data,
      configParentKey, Dot(configParentKey, txt.logging), Dot(txt.items, txt.dup) }

GetPaths ==
    { Dot(txt.logging, txt.level), Dot(txt.LOGGING, txt.Level), txt.logging, txt.addrs,
      txt.nosuch, Dot(Dot(Dot(txt.array, txt.hello), txt.world), txt.loglevel),
      Dot(txt.array, txt.c3p0), Dot(txt.array, txt.two), Dot(txt.data, txt.name),
      Dot(txt.items, txt.dup), Dot(txt.items, txt.hello), Dot(txt.items, txt.rank),
      Dot(Dot(txt.items, txt.dup), txt.rank) }


EnvNames == { txt.LSX_LOGGING_LEVEL, txt.LSX_LOGGING }

EnvValues == { Unset, SetTo(<<>>), SetTo(txt.debug) }

NoCall == [op |-> "none", c |-> RootId, path |-> <<>>, ret |-> Nil]

CfgIdle ==
    /\ heap = itemsConfig
    /\ trees = {RootId}
    /\ env = [n \in EnvNames |-> Unset]
    /\ nscopes = 0
    /\ call = NoCall

CfgInit ==
    /\ heap \in Roots
    /\ trees = {RootId}
    /\ env = [n \in EnvNames |-> Unset]
    /\ nscopes = 0
    /\ call = NoCall

\* os.Setenv / os.Unsetenv
Setenv ==
    \E n \in EnvNames, v \in EnvValues :
        /\ env' = [env EXCEPT ![n] = v]
        /\ call' = [op |-> "Setenv", c |-> RootId, path |-> n, ret |-> Nil]
        /\ UNCHANGED <<heap, trees, nscopes, parseVars, regVars>>

DoGet ==
    \E c \in trees, p \in GetPaths, ord \in Orders :
        /\ call' = [op |-> "Get", c |-> c, path |-> p, ret |-> Get(heap, env, ord, c, p)]
        /\ UNCHANGED <<heap, trees, env, nscopes, parseVars, regVars>>

DoScope ==
    \E c \in trees, p \in ScopePaths, ord \in Orders :
        /\ nscopes < MaxScopes
        /\ LET r == Scope(heap, env, ord, c, p) IN
           /\ heap' = r.heap
           /\ trees' = IF r.ret = NilConfig THEN trees ELSE trees \cup {r.ret.id}
           /\ call' = [op |-> "Scope", c |-> c, path |-> p, ret |-> r.ret]
        /\ nscopes' = nscopes + 1
        /\ UNCHANGED <<env, parseVars, regVars>>

DoMarshalJSON ==
    \E c \in trees, ord \in Orders :
        /\ call' = [op |-> "MarshalJSON", c |-> c, path |-> <<>>,
                    ret |-> MarshalJSON(heap, ord, c)]
        /\ UNCHANGED <<heap, trees, env, nscopes, parseVars, regVars>>

(***************************************************************************)
(* ModuleType and ParseModuleType                                          *)
(***************************************************************************)
InvalidModuleType == 0
ClientModuleType == 1
ConfigModuleType == 2
LoggerModuleType == 3
ServerModuleType == 4
VolumeModuleType == 5
maxModuleType == VolumeModuleType


\* ModuleType.String
String(t) ==
    CASE t = ClientModuleType -> txt.client
      [] t = ConfigModuleType -> txt.config
      [] t = LoggerModuleType -> txt.logger
      [] t = ServerModuleType -> txt.server
      [] t = VolumeModuleType -> txt.volume
      [] OTHER -> txt.invalid

\* The values handed to ParseModuleType: a kind and, for the numeric kinds,
\* the number n; a float holds n halves, so that 3 is the float 1.5.
UintKinds == {"uint8", "uint16", "uint32", "uint", "uint64"}
IntKinds == {"int8", "int16", "int32", "int", "int64"}
FloatKinds == {"float32", "float64"}
PrimKinds == UintKinds \cup IntKinds \cup FloatKinds \cup {"string"}

NumV(k, n) == [k |-> k, n |-> n]
TextV(k, s) == [k |-> k, s |-> s]
NilV == [k |-> "nil"]
PtrV(v) == [k |-> "ptr", to |-> v]

\* the conversion uint8(x) of an integer
ToUint8(n) == n % 256

RECURSIVE HalvesText(_)
\* %v of a float holding n halves
HalvesText(n) ==
    IF n < 0 THEN <<"-">> \o HalvesText(-n)
    ELSE IF n % 2 = 0 THEN NatText(n \div 2)
    ELSE NatText(n \div 2) \o <<".", "5">>

\* fmt's %v of a value
FmtV(v) ==
    CASE v.k \in UintKinds \cup IntKinds -> IntText(v.n)
      [] v.k \in FloatKinds -> HalvesText(v.n)
      [] v.k \in {"string", "Stringer"} -> v.s
      [] v.k = "ModuleType" -> String(v.n)
      [] v.k = "nil" -> <<"<", "n", "i", "l", ">">>
      [] OTHER -> <<"0", "x">>

errPrefix ==
    <<"e", "r", "r", "o", "r", ":", " ", "i", "n", "v", "a", "l", "i", "d", " ",
      "m", "o", "d", "u", "l", "e", " ", "t", "y", "p", "e", ":", " ">>

NoError == [nil |-> TRUE, msg |-> <<>>]
Errorf(msg) == [nil |-> FALSE, msg |-> msg]

errUnknownModuleType(v) ==
    LET w == IF v.k = "ModuleType" THEN NumV("uint8", v.n) ELSE v IN
    [mt |-> 0, err |-> Errorf(errPrefix \o FmtV(w))]

\* isValidModuleType without the upper limit
isValidModuleType_NoMax(v) ==
    IF v < InvalidModuleType + 1
    THEN errUnknownModuleType(NumV("ModuleType", v))
    ELSE [mt |-> v, err |-> NoError]

isValidModuleType(v) ==
    IF v < InvalidModuleType + 1 \/ v > maxModuleType
    THEN errUnknownModuleType(NumV("ModuleType", v))
    ELSE [mt |-> v, err |-> NoError]

RECURSIVE ParseName(_, _, _)
\* the loop over the module types of the string case
ParseName(v, tv, mt) ==
    IF mt > maxModuleType THEN errUnknownModuleType(v)
    ELSE IF EqualFold(tv, String(mt)) THEN [mt |-> mt, err |-> NoError]
    ELSE ParseName(v, tv, mt + 1)

RECURSIVE ParseModuleType(_)
ParseModuleType(v) ==
    CASE v.k = "ptr" /\ v.to.k = "ModuleType" -> [mt |-> v.to.n, err |-> NoError]
      [] v.k = "ModuleType" -> isValidModuleType(v.n)
      [] v.k = "ptr" /\ v.to.k \in PrimKinds -> ParseModuleType(v.to)
      [] v.k = "uint8" -> isValidModuleType(v.n)
      [] v.k \in {"uint16", "uint32", "uint64"} ->
            IF v.n <= 255 THEN isValidModuleType(ToUint8(v.n))
            ELSE errUnknownModuleType(v)
      [] v.k = "uint" -> ParseModuleType(NumV("uint64", v.n))
      [] v.k = "int8" ->
            IF v.n > 0 /\ v.n <= 127 THEN isValidModuleType(ToUint8(v.n))
            ELSE errUnknownModuleType(v)
      [] v.k \in {"int16", "int32", "int64"} ->
            IF v.n > 0 /\ v.n <= 255 THEN isValidModuleType(ToUint8(v.n))
            ELSE errUnknownModuleType(v)
      [] v.k = "int" -> ParseModuleType(NumV("int64", v.n))
      [] v.k \in FloatKinds ->
            IF v.n > 0 /\ v.n <= 2 * 255 /\ v.n % 2 = 0
            THEN isValidModuleType(ToUint8(v.n \div 2))
            ELSE errUnknownModuleType(v)
      [] v.k = "Stringer" -> ParseModuleType(TextV("string", v.s))
      [] v.k = "string" -> ParseName(v, v.s, InvalidModuleType + 1)
      [] OTHER -> errUnknownModuleType(v)

\* The inputs tried: the numbers around the valid range, the limits of the
\* 8-bit range, and the numbers past 256 whose low 8 bits come back to it.
MaxProbe == 7

Wrapped == {127, 128, 255} \cup {256 + k : k \in 0..MaxProbe}

UintProbes(k) ==
    IF k = "uint8" THEN 0..MaxProbe \cup {127, 128, 255} ELSE 0..MaxProbe \cup Wrapped

IntProbes(k) ==
    IF k = "int8" THEN -2..MaxProbe \cup {-128, 127} ELSE -2..MaxProbe \cup Wrapped

FloatProbes == -3..(2 * MaxProbe + 1) \cup {2 * x : x \in Wrapped}

TextProbes ==
    {String(t) : t \in 1..maxModuleType}
      \cup {ToUpper(String(t)) : t \in 1..maxModuleType}
      \cup {txt.volumeService, txt.invalid, <<>>}

ByValue ==
    {NumV(k, n) : k \in {"uint8"}, n \in UintProbes("uint8")}
      \cup {NumV(k, n) : k \in UintKinds \ {"uint8"}, n \in UintProbes("uint16")}
      \cup {NumV(k, n) : k \in {"int8"}, n \in IntProbes("int8")}
      \cup {NumV(k, n) : k \in IntKinds \ {"int8"}, n \in IntProbes("int16")}
      \cup {NumV(k, n) : k \in FloatKinds, n \in FloatProbes}
      \cup {TextV("string", s) : s \in TextProbes}
      \cup {NumV("ModuleType", n) : n \in 0..MaxProbe \cup {255}}

ParseInputs ==
    ByValue \cup {PtrV(v) : v \in ByValue}
      \cup {TextV("Stringer", s) : s \in TextProbes} \cup {NilV}

NotParsed == [done |-> FALSE, mt |-> 0, err |-> NoError]

ParseInit ==
    /\ pin \in ParseInputs
    /\ pout = NotParsed

DoParse ==
    /\ ~pout.done
    /\ LET r == ParseModuleType(pin) IN
       pout' = [done |-> TRUE, mt |-> r.mt, err |-> r.err]
    /\ UNCHANGED <<pin, cfgVars, regVars>>

NextInput ==
    /\ pout.done
    /\ pin' \in ParseInputs
    /\ pout' = NotParsed
    /\ UNCHANGED <<cfgVars, regVars>>

(***************************************************************************)
(* The module registry and the server registry                             *)
(***************************************************************************)
NumGoroutines == 2
MaxCalls == 3

Goroutines == 1..NumGoroutines

\* the arguments tried
ModTypes == {ClientModuleType, ServerModuleType}
ModNames == {"mock", "csi"}
ServerNames == {"svr00", "svr01"}

\* the (type, name) pairs tried: two names of one type, one name of two types
ModPairs == (ModTypes \X ModNames) \ {<<ServerModuleType, "csi">>}
Ctors == {"ctorA", "ctorB"}

\* a sync.RWMutex: the goroutine holding it for writing (0: none) and the
\* goroutines holding it for reading
Unlocked == [w |-> 0, r |-> {}]
CanLock(l) == l.w = 0 /\ l.r = {}
CanRLock(l) == l.w = 0

NilModule == [nil |-> TRUE, of |-> ""]
Made(ctor) == [nil |-> FALSE, of |-> ctor]

Idle == [pc |-> "idle", modType |-> 0, name |-> "", ctor |-> "", ret |-> NilModule]

Frame(pc, modType, name, ctor) ==
    [pc |-> pc, modType |-> modType, name |-> name, ctor |-> ctor, ret |-> NilModule]

At(g, pc) == ~fatal /\ frames[g].pc = pc

Goto(g, pc) == frames' = [frames EXCEPT ![g].pc = pc]

\* an assignment that keeps no other key of the map
Assign_Only(m, k, v) == [x \in {k} |-> v]

\* m[k] = v of a Go map
Assign(m, k, v) == [x \in DOMAIN m \cup {k} |-> IF x = k THEN v ELSE m[x]]

EmptyMap == [x \in {} |-> ""]

\* a server instance: the name it reports, the constructor that made it, and
\* which construction of its enumeration it is
\* a constructor that hands out one and the same instance every time
Server_Same(n, c, k) == [name |-> n, of |-> c, nth |-> 0]

Server(n, c, k) == [name |-> n, of |-> c, nth |-> k]
NoServer == Server("", "", 0)

\* The stream of a Servers call: the producer goroutine (pc: none, spawned,
\* range, send, done), the keys the map had when its iteration began, the
\* keys it has visited, the item it is handing off, and on the consumer's
\* side the items it received.
\* snap and concurrent are history: the registry when the producer was
\* started, and whether a registration was written since.
NoStream ==
    [pc |-> "none", start |-> {}, seen |-> {}, item |-> NoServer,
     recvd |-> <<>>, snap |-> EmptyMap, concurrent |-> FALSE]

\* the producer of the stream has been started and has not returned
Enumerating(st) == st.pc \in {"spawned", "range", "send"}

\* a receive on the channel completes only by meeting the producer's send:
\* the channel is unbuffered and nothing closes it
CanRecv_Closed(st) == st.pc \in {"send", "done"}

CanRecv(st) == st.pc = "send"

\* a goroutine begins a call: its frame is f
Begin(g, f) ==
    /\ At(g, "idle")
    /\ UNCHANGED <<cfgVars, parseVars>>
    /\ ncalls < MaxCalls
    /\ ncalls' = ncalls + 1
    /\ frames' = [frames EXCEPT ![g] = f]
    /\ UNCHANGED <<mods, modsRWL, serverCtors, serverCtorsRWL, fatal, lastMod, streams>>

CallRegisterModule(g) ==
    \E p \in ModPairs, c \in Ctors : Begin(g, Frame("rm_Lock", p[1], p[2], c))

CallNewModule(g) ==
    \E p \in ModPairs : Begin(g, Frame("nm_RLock", p[1], p[2], ""))

CallRegisterServer(g) ==
    \E n \in ServerNames, c \in Ctors : Begin(g, Frame("rs_Lock", 0, n, c))

\* a goroutine begins a call of the module registry or a RegisterServer
Call(g) == CallRegisterModule(g) \/ CallNewModule(g) \/ CallRegisterServer(g)

\* RegisterModule: modsRWL.Lock()
rmLock(g) ==
    /\ At(g, "rm_Lock")
    /\ UNCHANGED <<cfgVars, parseVars>>
    /\ CanLock(modsRWL)
    /\ modsRWL' = [modsRWL EXCEPT !.w = g]
    /\ Goto(g, "rm_outer")
    /\ UNCHANGED <<mods, serverCtors, serverCtorsRWL, ncalls, fatal, lastMod, streams>>

\* RegisterModule: the lookup of mods[modType], created when it is not there
rmOuter(g) ==
    /\ At(g, "rm_outer")
    /\ UNCHANGED <<cfgVars, parseVars>>
    /\ mods' = IF frames[g].modType \in DOMAIN mods THEN mods
               ELSE Assign(mods, frames[g].modType, EmptyMap)
    /\ Goto(g, "rm_assign")
    /\ UNCHANGED <<modsRWL, serverCtors, serverCtorsRWL, ncalls, fatal, lastMod, streams>>

\* RegisterModule: modCtorMap[modName] = modCtor
rmAssign(g) ==
    /\ At(g, "rm_assign")
    /\ UNCHANGED <<cfgVars, parseVars>>
    /\ mods' = [mods EXCEPT ![frames[g].modType] = Assign(@, frames[g].name, frames[g].ctor)]
    /\ lastMod' = [p \in DOMAIN lastMod \cup {<<frames[g].modType, frames[g].name>>} |->
                      IF p = <<frames[g].modType, frames[g].name>> THEN frames[g].ctor
                      ELSE lastMod[p]]
    /\ Goto(g, "rm_Unlock")
    /\ UNCHANGED <<modsRWL, serverCtors, serverCtorsRWL, ncalls, fatal, streams>>

\* RegisterModule: the deferred modsRWL.Unlock()
rmUnlock(g) ==
    /\ At(g, "rm_Unlock")
    /\ UNCHANGED <<cfgVars, parseVars>>
    /\ modsRWL' = [modsRWL EXCEPT !.w = 0]
    /\ frames' = [frames EXCEPT ![g] = Idle]
    /\ UNCHANGED <<mods, serverCtors, serverCtorsRWL, ncalls, fatal, lastMod, streams>>

RegisterModule(g) == rmLock(g) \/ rmOuter(g) \/ rmAssign(g) \/ rmUnlock(g)

\* another goroutine is about to write the map of module types
WritesOuter(g) ==
    \E h \in Goroutines \ {g} :
        frames[h].pc = "rm_outer" /\ frames[h].modType \notin DOMAIN mods

\* another goroutine is about to write the map of the names of type t
WritesInner(g, t) ==
    \E h \in Goroutines \ {g} : frames[h].pc = "rm_assign" /\ frames[h].modType = t

\* NewModule: serverCtorsRWL.RLock()
nmRLock(g) ==
    /\ At(g, "nm_RLock")
    /\ UNCHANGED <<cfgVars, parseVars>>
    /\ CanRLock(serverCtorsRWL)
    /\ serverCtorsRWL' = [serverCtorsRWL EXCEPT !.r = @ \cup {g}]
    /\ Goto(g, "nm_outer")
    /\ UNCHANGED <<mods, modsRWL, serverCtors, ncalls, fatal, lastMod, streams>>

\* NewModule: a, ok := mods[modType]. A read that meets a write of the same
\* map is a data race: it reads the map as it is, or the runtime ends the
\* process ("concurrent map read and map write").
nmOuter(g) ==
    /\ At(g, "nm_outer")
    /\ UNCHANGED <<cfgVars, parseVars>>
    /\ \/ /\ Goto(g, IF frames[g].modType \in DOMAIN mods THEN "nm_inner" ELSE "nm_RUnlock")
          /\ UNCHANGED fatal
       \/ /\ WritesOuter(g)
          /\ fatal' = TRUE
          /\ UNCHANGED frames
    /\ UNCHANGED <<mods, modsRWL, serverCtors, serverCtorsRWL, ncalls, lastMod, streams>>

\* NewModule: b, ok := a[modName]; return b()
nmInner(g) ==
    /\ At(g, "nm_inner")
    /\ UNCHANGED <<cfgVars, parseVars>>
    /\ \/ /\ LET a == mods[frames[g].modType] IN
             frames' = [frames EXCEPT ![g].pc = "nm_RUnlock",
                                      ![g].ret = IF frames[g].name \in DOMAIN a
                                                 THEN Made(a[frames[g].name])
                                                 ELSE NilModule]
          /\ UNCHANGED fatal
       \/ /\ WritesInner(g, frames[g].modType)
          /\ fatal' = TRUE
          /\ UNCHANGED frames
    /\ UNCHANGED <<mods, modsRWL, serverCtors, serverCtorsRWL, ncalls, lastMod, streams>>

\* NewModule: the deferred serverCtorsRWL.RUnlock()
nmRUnlock(g) ==
    /\ At(g, "nm_RUnlock")
    /\ UNCHANGED <<cfgVars, parseVars>>
    /\ serverCtorsRWL' = [serverCtorsRWL EXCEPT !.r = @ \ {g}]
    /\ frames' = [frames EXCEPT ![g] = [Idle EXCEPT !.ret = frames[g].ret]]
    /\ UNCHANGED <<mods, modsRWL, serverCtors, ncalls, fatal, lastMod, streams>>

NewModule(g) == nmRLock(g) \/ nmOuter(g) \/ nmInner(g) \/ nmRUnlock(g)

\* RegisterServer: serverCtorsRWL.Lock()
rsLock(g) ==
    /\ At(g, "rs_Lock")
    /\ UNCHANGED <<cfgVars, parseVars>>
    /\ CanLock(serverCtorsRWL)
    /\ serverCtorsRWL' = [serverCtorsRWL EXCEPT !.w = g]
    /\ Goto(g, "rs_assign")
    /\ UNCHANGED <<mods, modsRWL, serverCtors, ncalls, fatal, lastMod, streams>>

\* RegisterServer: serverCtors[name] = ctor
rsAssign(g) ==
    /\ At(g, "rs_assign")
    /\ UNCHANGED <<cfgVars, parseVars>>
    /\ serverCtors' = Assign(serverCtors, frames[g].name, frames[g].ctor)
    /\ streams' = [h \in Goroutines |->
                      IF Enumerating(streams[h])
                      THEN [streams[h] EXCEPT !.concurrent = TRUE]
                      ELSE streams[h]]
    /\ Goto(g, "rs_Unlock")
    /\ UNCHANGED <<mods, modsRWL, serverCtorsRWL, ncalls, fatal, lastMod>>

\* RegisterServer: the deferred serverCtorsRWL.Unlock()
rsUnlock(g) ==
    /\ At(g, "rs_Unlock")
    /\ UNCHANGED <<cfgVars, parseVars>>
    /\ serverCtorsRWL' = [serverCtorsRWL EXCEPT !.w = 0]
    /\ frames' = [frames EXCEPT ![g] = Idle]
    /\ UNCHANGED <<mods, modsRWL, serverCtors, ncalls, fatal, lastMod, streams>>

RegisterServer(g) == rsLock(g) \/ rsAssign(g) \/ rsUnlock(g)

\* a goroutine calls Servers
CallServers(g) ==
    /\ At(g, "idle")
    /\ UNCHANGED <<cfgVars, parseVars>>
    /\ ncalls < MaxCalls
    /\ ~Enumerating(streams[g])
    /\ ncalls' = ncalls + 1
    /\ frames' = [frames EXCEPT ![g] = Frame("sv_RLock", 0, "", "")]
    /\ streams' = [streams EXCEPT ![g] = NoStream]
    /\ UNCHANGED <<mods, modsRWL, serverCtors, serverCtorsRWL, fatal, lastMod>>

\* Servers: serverCtorsRWL.RLock()
svRLock(g) ==
    /\ At(g, "sv_RLock")
    /\ UNCHANGED <<cfgVars, parseVars>>
    /\ CanRLock(serverCtorsRWL)
    /\ serverCtorsRWL' = [serverCtorsRWL EXCEPT !.r = @ \cup {g}]
    /\ Goto(g, "sv_go")
    /\ UNCHANGED <<mods, modsRWL, serverCtors, ncalls, fatal, lastMod, streams>>

\* Servers: c := make(chan Server); go func() {...}()
svGo(g) ==
    /\ At(g, "sv_go")
    /\ UNCHANGED <<cfgVars, parseVars>>
    /\ streams' = [streams EXCEPT ![g].pc = "spawned", ![g].snap = serverCtors]
    /\ Goto(g, "sv_RUnlock")
    /\ UNCHANGED <<mods, modsRWL, serverCtors, serverCtorsRWL, ncalls, fatal, lastMod>>

\* The consumer of the stream either goes on to a receive or has stopped
\* receiving; it attempts at most one receive more than there are names.
Consume(g, n) ==
    \/ /\ n <= Cardinality(ServerNames)
       /\ Goto(g, "sv_recv")
    \/ frames' = [frames EXCEPT ![g] = Idle]

\* Servers: return c, with the deferred serverCtorsRWL.RUnlock()
svRUnlock(g) ==
    /\ At(g, "sv_RUnlock")
    /\ UNCHANGED <<cfgVars, parseVars>>
    /\ serverCtorsRWL' = [serverCtorsRWL EXCEPT !.r = @ \ {g}]
    /\ Consume(g, 0)
    /\ UNCHANGED <<mods, modsRWL, serverCtors, ncalls, fatal, lastMod, streams>>

\* another goroutine is about to write the map of server constructors
WritesServers(g) == \E h \in Goroutines \ {g} : frames[h].pc = "rs_assign"

\* The producer: one turn of for _, ctor := range serverCtors, up to the
\* send of ctor(). The keys still to visit are read from the map as it is; a
\* key created after the iteration began may be produced or skipped. A turn
\* that meets a write of the map is a data race: it reads the map as it is,
\* or the runtime ends the process ("concurrent map iteration and map write").
prodRange(g) ==
    /\ ~fatal
    /\ streams[g].pc \in {"spawned", "range"}
    /\ UNCHANGED <<cfgVars, parseVars>>
    /\ LET st == streams[g]
           start == IF st.pc = "spawned" THEN DOMAIN serverCtors ELSE st.start
           todo == DOMAIN serverCtors \ st.seen
       IN  \/ /\ \E n \in todo :
                    streams' = [streams EXCEPT ![g] =
                        [st EXCEPT !.pc = "send", !.start = start, !.seen = @ \cup {n},
                                   !.item = Server(n, serverCtors[n], Cardinality(st.seen) + 1)]]
              /\ UNCHANGED fatal
           \/ /\ start \subseteq st.seen
              /\ streams' = [streams EXCEPT ![g] = [st EXCEPT !.pc = "done", !.start = start]]
              /\ UNCHANGED fatal
           \/ /\ WritesServers(g)
              /\ fatal' = TRUE
              /\ UNCHANGED streams
    /\ UNCHANGED <<mods, modsRWL, serverCtors, serverCtorsRWL, frames, ncalls, lastMod>>

\* c <- ctor() meets the consumer's <-c
svRecv(g) ==
    /\ At(g, "sv_recv")
    /\ UNCHANGED <<cfgVars, parseVars>>
    /\ CanRecv(streams[g])
    /\ streams' = [streams EXCEPT ![g].recvd = Append(@, streams[g].item),
                                  ![g].item = NoServer,
                                  ![g].pc = IF streams[g].pc = "send" THEN "range" ELSE @]
    /\ Consume(g, Len(streams[g].recvd) + 1)
    /\ UNCHANGED <<mods, modsRWL, serverCtors, serverCtorsRWL, ncalls, fatal, lastMod>>

Servers(g) ==
    \/ CallServers(g) \/ svRLock(g) \/ svGo(g) \/ svRUnlock(g)
    \/ prodRange(g) \/ svRecv(g)

RegIdle ==
    /\ mods = EmptyMap
    /\ modsRWL = Unlocked
    /\ serverCtors = EmptyMap
    /\ serverCtorsRWL = Unlocked
    /\ frames = [g \in Goroutines |-> Idle]
    /\ ncalls = 0
    /\ fatal = FALSE
    /\ lastMod = EmptyMap
    /\ streams = [g \in Goroutines |-> NoStream]

CfgNext == Setenv \/ DoGet \/ DoScope \/ DoMarshalJSON

ParseIdle ==
    /\ pin = NilV
    /\ pout = NotParsed

Init == CfgInit /\ ParseIdle /\ RegIdle

Next == CfgNext

\* the Config operations
Spec == Init /\ [][Next]_vars

InitParse == CfgIdle /\ ParseInit /\ RegIdle

NextParse == DoParse \/ NextInput

\* ParseModuleType on every input tried
SpecParse == InitParse /\ [][NextParse]_vars

InitReg == CfgIdle /\ ParseIdle /\ RegIdle

NextReg ==
    \E g \in Goroutines :
        Call(g) \/ RegisterModule(g) \/ NewModule(g) \/ RegisterServer(g)

\* concurrent calls of the registries
SpecReg == InitReg /\ [][NextReg]_vars

NextServers ==
    \E g \in Goroutines :
        CallRegisterServer(g) \/ RegisterServer(g) \/ Servers(g)

\* concurrent registrations and enumerations of the servers
SpecServers == InitReg /\ [][NextServers]_vars

(***************************************************************************)
(* Properties of Config                                                    *)
(***************************************************************************)
Reserved == {configScopeKey, configParentKey}

\* the name of the variable that overrides path p, as the documentation gives it
OverrideName(p) ==
    <<"L", "S", "X", "_">> \o [i \in 1..Len(p) |-> IF p[i] = "." THEN "_" ELSE UpperOf[p[i]]]

\* the override in force for path p: its text, or the empty text when there is none
Override(e, p) ==
    IF OverrideName(p) \in DOMAIN e /\ e[OverrideName(p)].set THEN e[OverrideName(p)].v ELSE <<>>

NoOverrides(e) == \A n \in DOMAIN e : e[n].v = <<>>

\* the structural resolution of path p inside the tree c alone
Resolve(h, ord, c, p) == Walk(h, ord, Cfg(c), Split(p, "."), 1)

RECURSIVE ChainFirst(_, _, _, _, _)
\* the resolution of p in the first tree of c's parent chain in which it
\* resolves, looking at c and at most n ancestors; Nil when there is none
ChainFirst(h, ord, c, p, n) ==
    LET r == Resolve(h, ord, c, p) IN
    IF r # Nil THEN r
    ELSE IF n = 0 \/ Parent(h, c) = NilConfig THEN Nil
    ELSE ChainFirst(h, ord, Parent(h, c).id, p, n - 1)

RECURSIVE ChainEndsAtRoot(_, _, _)
\* following parents from c reaches the root within n steps
ChainEndsAtRoot(h, c, n) ==
    IF Parent(h, c) = NilConfig THEN c = RootId
    ELSE n > 0 /\ ChainEndsAtRoot(h, Parent(h, c).id, n - 1)

Contains(text, pat) ==
    \E i \in 1..(Len(text) - Len(pat) + 1) : SubSeq(text, i, i + Len(pat) - 1) = pat

IsExample == txt.logging \in DOMAIN heap[RootId]

\* C1: with no environment override set, Get(T, p) returns the resolution of
\* p in the first tree of T's parent chain in which p resolves, and absence
\* when p resolves in no tree of the chain.
C1_GetFirstInChain ==
    (call.op = "Get" /\ NoOverrides(env)) =>
        \E ord \in Orders :
            call.ret = ChainFirst(heap, ord, call.c, call.path, Cardinality(DOMAIN heap))

\* what a caller can observe of the tree c
Observe(h, e, ord, c) ==
    [get |-> [q \in GetPaths \cup ScopePaths |-> Get(h, e, ord, c, q)],
     len |-> ConfigLen(h, c),
     text |-> MarshalJSON(h, ord, c),
     parent |-> Parent(h, c),
     scope |-> IF configScopeKey \in DOMAIN h[c] THEN h[c][configScopeKey] ELSE Nil]

\* C2: Scope does not mutate any tree that existed before the call: Get, Len,
\* the encoded text, the parent and the scope text of every tree held before
\* the call are the same after it.
C2_ScopeFrame ==
    [][nscopes' # nscopes =>
        \A c \in trees : \A ord \in Orders :
            Observe(heap', env, ord, c) = Observe(heap, env, ord, c)]_vars

\* C3: encoding any tree (the root, or a tree obtained by Scope) terminates
\* and yields text that holds every non-reserved key of the tree and neither
\* reserved key at any depth.
C3_EncodeOmitsReserved ==
    call.op = "MarshalJSON" =>
        /\ call.ret.t = "str"
        /\ ~Contains(call.ret.s, configScopeKey)
        /\ ~Contains(call.ret.s, configParentKey)
        /\ \A k \in DOMAIN heap[call.c] \ Reserved :
              Contains(call.ret.s, Quote(k) \o <<":">>)

\* C4: when the variable LSX_<PATH> is set to a non-empty text, Get returns
\* that text for every tree; when it is unset or empty, Get returns what it
\* returns with no variable set at all.
C4_EnvOverride ==
    call.op = "Get" =>
        IF Override(env, call.path) # <<>>
        THEN call.ret = Str(Override(env, call.path))
        ELSE \E ord \in Orders :
                call.ret = Get(heap, [n \in DOMAIN env |-> Unset], ord, call.c, call.path)

C4_Witness ==
    /\ call.op = "Get"
    /\ IsExample
    /\ call.c = Svc00Id
    /\ call.path = Dot(txt.logging, txt.level)
    /\ env[txt.LSX_LOGGING_LEVEL] = SetTo(txt.debug)
    /\ \A ord \in Orders : Resolve(heap, ord, call.c, call.path) = Str(txt.info)
    /\ call.ret = Str(txt.debug)

\* the outcome the Scope call (c, p) -> r must have had on the heap, given the
\* value v that p resolves to inside c
ScopedTo(h, h2, c, p, r, v) ==
    /\ r = Cfg(v.id)
    /\ DOMAIN h2[v.id] = DOMAIN h[v.id] \cup Reserved
    /\ \A k \in DOMAIN h[v.id] \ Reserved : h2[v.id][k] = h[v.id][k]
    /\ h2[v.id][configParentKey] = Cfg(c)
    /\ h2[v.id][configScopeKey] = Str(p)

\* C5 (as amended): with no override set for p, Scope(T, p) returns the nil
\* tree and changes nothing unless p resolves inside T itself, without T's
\* parent, to a plain map (an unresolved path, a scalar, a sequence, a record
\* and the Config stored under the parent key all give the nil tree); for a
\* plain map it returns that map with parent T and scope p.  With an override
\* set for p it returns the nil tree.
C5_ScopeResult ==
    [][nscopes' # nscopes =>
        \E ord \in Orders :
            LET v == Resolve(heap, ord, call'.c, call'.path) IN
            IF Override(env, call'.path) = <<>> /\ v.t = "map"
            THEN ScopedTo(heap, heap', call'.c, call'.path, call'.ret, v)
            ELSE call'.ret = NilConfig /\ heap' = heap /\ trees' = trees]_vars

\* C5 (as stated): Scope(T, p) returns the nil tree exactly when p does not
\* resolve inside T itself to an associative container, and otherwise that
\* container with parent T and scope p.
C5_ScopeResultAsStated ==
    [][nscopes' # nscopes =>
        \E ord \in Orders :
            LET v == Resolve(heap, ord, call'.c, call'.path) IN
            IF v.t \in {"map", "cfg"}
            THEN ScopedTo(heap, heap', call'.c, call'.path, call'.ret, v)
            ELSE call'.ret = NilConfig /\ heap' = heap /\ trees' = trees]_vars

C5_Witness ==
    /\ call.op = "Scope"
    /\ IsExample
    /\ call.c = Svr00Id
    /\ call.path = txt.logging
    /\ call.ret = NilConfig
    /\ \A ord \in Orders : Resolve(heap, ord, RootId, txt.logging) = Map(LoggingId)
    /\ Parent(heap, Svr00Id) = Cfg(RootId)

\* C6: the parent chain of every tree is acyclic and ends at the root, and
\* Get returns a value or absence, never a fatal error.
C6_ChainAcyclic ==
    /\ \A c \in trees : ChainEndsAtRoot(heap, c, Cardinality(DOMAIN heap))
    /\ call.op = "Get" => call.ret # StackOverflow


\* the element el carries the name t: a map by a key "name", a record by a
\* text field "name", both up to letter case
NamedBy(h, el, t) ==
    \/ /\ el.t \in {"map", "cfg"}
       /\ \E key \in DOMAIN h[el.id] :
             /\ EqualFold(txt.name, key)
             /\ h[el.id][key].t = "str"
             /\ EqualFold(t, h[el.id][key].s)
    \/ /\ el.t = "struct"
       /\ \E i \in 1..Len(el.flds) :
             /\ EqualFold(txt.name, el.flds[i].n)
             /\ el.flds[i].v.t = "str"
             /\ EqualFold(t, el.flds[i].v.s)

\* the record el has a field other than its name field that is named t
OtherFieldNamed(el, t) ==
    /\ el.t = "struct"
    /\ \E i \in 1..Len(el.flds) :
          ~EqualFold(txt.name, el.flds[i].n) /\ EqualFold(t, el.flds[i].n)

\* in the record el no field named t is declared before the name field
NameDeclaredFirst(el, t) ==
    el.t = "struct" =>
        \A i \in 1..Len(el.flds) :
            (~EqualFold(txt.name, el.flds[i].n) /\ EqualFold(t, el.flds[i].n)) =>
                \E j \in 1..(i - 1) : EqualFold(txt.name, el.flds[j].n)

\* the last Get addressed, with no override, an element of a sequence stored
\* under a key of the receiver: the key found and the tokens after it
SeqGet(key) ==
    /\ call.op = "Get"
    /\ Override(env, call.path) = <<>>
    /\ Len(Split(call.path, ".")) >= 2
    /\ key \in DOMAIN heap[call.c]
    /\ EqualFold(Split(call.path, ".")[1], key)
    /\ heap[call.c][key].t = "slice"

\* the call's result is what the tokens after the element's resolve to inside el
ContinuesInside(el) ==
    LET toks == Split(call.path, ".") IN
    \E ord \in Orders :
        LET inside == Walk(heap, ord, el, SubSeq(toks, 3, Len(toks)), 1) IN
        inside # Nil => call.ret = inside

\* no element of els that is a map or a record matches t
NothingMatches(h, els, t) ==
    \A i \in 1..Len(els) :
        ~NamedBy(h, derefValue(els[i]), t) /\ ~OtherFieldNamed(derefValue(els[i]), t)

\* C7 (as stated): every element of a sequence under key k whose name equals
\* t up to letter case is returned whole by Get(k.t), further segments
\* resolve inside it, and elements that are neither maps nor records are
\* skipped.
C7_NamedElementAsStated ==
    \A key \in DOMAIN heap[call.c] :
        SeqGet(key) =>
            LET els == heap[call.c][key].els
                t == Split(call.path, ".")[2]
            IN  /\ \A i \in 1..Len(els) :
                      NamedBy(heap, derefValue(els[i]), t) => ContinuesInside(derefValue(els[i]))
                /\ (NothingMatches(heap, els, t) /\ Parent(heap, call.c) = NilConfig)
                      => call.ret = Nil

\* C7 (as amended): the last element of the sequence whose name equals t up to
\* letter case is returned whole by Get(k.t), and further segments resolve
\* inside it, provided no later element has a field named t and, for a record,
\* no field named t is declared before its name field; elements that are
\* neither maps nor records are skipped.
C7_NamedElement ==
    \A key \in DOMAIN heap[call.c] :
        SeqGet(key) =>
            LET els == heap[call.c][key].els
                t == Split(call.path, ".")[2]
            IN  /\ \A i \in 1..Len(els) :
                      ( /\ NamedBy(heap, derefValue(els[i]), t)
                        /\ NameDeclaredFirst(derefValue(els[i]), t)
                        /\ \A j \in (i + 1)..Len(els) :
                              /\ ~NamedBy(heap, derefValue(els[j]), t)
                              /\ ~OtherFieldNamed(derefValue(els[j]), t) )
                      => ContinuesInside(derefValue(els[i]))
                /\ (NothingMatches(heap, els, t) /\ Parent(heap, call.c) = NilConfig)
                      => call.ret = Nil

C7_Witness ==
    /\ call.op = "Get"
    /\ IsExample
    /\ call.c = RootId
    /\ NoOverrides(env)
    /\ call.path = Dot(Dot(Dot(txt.array, txt.hello), txt.world), txt.loglevel)
    /\ call.ret = Num(10)

(***************************************************************************)
(* Properties of ParseModuleType                                           *)
(***************************************************************************)
ValidOrdinals == 1..5

\* C8: ParseModuleType never reports success with an ordinal outside 1..5:
\* for every input, either the returned role is in 1..5 and the error is nil,
\* or the returned role is 0 and the error is not nil; a ModuleType passed by
\* reference is validated like one passed by value.
C8_ParseValidates ==
    pout.done =>
        \/ pout.mt \in ValidOrdinals /\ pout.err.nil
        \/ pout.mt = 0 /\ ~pout.err.nil

\* the value an input stands for: itself, or what a reference refers to
Referent(v) == IF v.k = "ptr" THEN v.to ELSE v

\* the canonical role names
CanonicalName ==
    [o \in ValidOrdinals |->
        CASE o = 1 -> <<"c", "l", "i", "e", "n", "t">>
          [] o = 2 -> <<"c", "o", "n", "f", "i", "g">>
          [] o = 3 -> <<"l", "o", "g", "g", "e", "r">>
          [] o = 4 -> <<"s", "e", "r", "v", "e", "r">>
          [] o = 5 -> <<"v", "o", "l", "u", "m", "e">>]

\* the ordinals the value denotes: at most one
Denoted(v) ==
    CASE v.k \in {"string", "Stringer"} ->
            {o \in ValidOrdinals : EqualFold(v.s, CanonicalName[o])}
      [] v.k \in UintKinds \cup IntKinds \cup {"ModuleType"} ->
            {o \in ValidOrdinals : o = v.n}
      [] v.k \in FloatKinds -> {o \in ValidOrdinals : 2 * o = v.n}
      [] OTHER -> {}

\* the literal rendering of a value, a role being rendered as its raw number
Rendering(v) ==
    IF v.k = "ModuleType" THEN IntText(v.n) ELSE FmtV(v)

\* the inputs passed by value or by a reference to a primitive
ByValueOrPrimRef(v) == v.k = "ptr" => v.to.k \in PrimKinds

\* C9: for every input passed by value or by a reference to a primitive,
\* ParseModuleType returns role k with no error when the input denotes an
\* ordinal k in 1..5 (canonical name in any letter case, integer of any
\* width, integral float); for every other input it returns role 0 with the
\* error text "error: invalid module type: " followed by the literal
\* rendering of the original input, a role rendered as its raw number.
C9_ParseResult ==
    (pout.done /\ ByValueOrPrimRef(pin)) =>
        LET v == Referent(pin) IN
        IF Denoted(v) # {}
        THEN pout.mt \in Denoted(v) /\ pout.err.nil
        ELSE /\ pout.mt = 0
             /\ ~pout.err.nil
             /\ pout.err.msg = errPrefix \o Rendering(v)

\* a 16-bit 257, whose low 8 bits are 1, has been rejected with its own
\* rendering
C9_Witness ==
    /\ pin = NumV("uint16", 257)
    /\ pout.done
    /\ pout.mt = 0
    /\ pout.err.msg = errPrefix \o <<"2", "5", "7">>

(***************************************************************************)
(* Properties of the registries                                            *)
(***************************************************************************)
\* inside NewModule between its RLock and its RUnlock: the reads of mods
InNewModule(g) == frames[g].pc \in {"nm_outer", "nm_inner", "nm_RUnlock"}

\* inside RegisterModule between its Lock and its Unlock: the writes of mods
InRegisterModule(g) == frames[g].pc \in {"rm_outer", "rm_assign", "rm_Unlock"}

\* C10: the module registry follows multiple-readers/single-writer locking:
\* in every interleaving of concurrent RegisterModule and NewModule calls, a
\* NewModule and a RegisterModule are never inside their critical sections
\* on the module registry at the same time.
C10_ReadersExcludeWriter ==
    \A r, w \in Goroutines : ~(InNewModule(r) /\ InRegisterModule(w))

\* what a lookup of the pair p in the two-level registry m gives
Lookup(m, p) ==
    IF p[1] \in DOMAIN m /\ p[2] \in DOMAIN m[p[1]] THEN Made(m[p[1]][p[2]])
    ELSE NilModule

\* C11: NewModule(role, name) returns an instance produced by the constructor
\* most recently registered for exactly that (role, name) pair, and absent
\* when no registration for that pair has happened; a RegisterModule inserts
\* or overwrites only its own pair and leaves the entry of every other pair
\* unchanged.
C11_NewModuleLatest ==
    [][\A g \in Goroutines :
        LET f == frames[g]
            pair == <<f.modType, f.name>>
        IN  /\ (f.pc \in {"nm_outer", "nm_inner"} /\ frames'[g].pc = "nm_RUnlock") =>
                  frames'[g].ret = IF pair \in DOMAIN lastMod THEN Made(lastMod[pair])
                                   ELSE NilModule
            /\ (f.pc \in {"rm_outer", "rm_assign"} /\ frames'[g].pc # f.pc) =>
                  \A p \in ModTypes \X ModNames :
                      p # pair => Lookup(mods', p) = Lookup(mods, p)
            /\ (f.pc = "rm_assign" /\ frames'[g].pc = "rm_Unlock") =>
                  Lookup(mods', pair) = Made(f.ctor)]_vars

\* a NewModule has found the constructor last registered for its pair while
\* another pair is registered too
C11_Witness ==
    \E g \in Goroutines :
        LET pair == <<frames[g].modType, frames[g].name>> IN
        /\ frames[g].pc = "nm_RUnlock"
        /\ pair \in DOMAIN lastMod
        /\ frames[g].ret = Made(lastMod[pair])
        /\ DOMAIN lastMod # {pair}

(***************************************************************************)
(* Properties of the server enumeration                                    *)
(***************************************************************************)
\* the names the items of the sequence q report
NamesOf(q) == {q[i].name : i \in 1..Len(q)}

\* C12: with N server names registered and no registration concurrent with
\* the enumeration, the consumer of one Servers() call receives freshly
\* constructed instances, one per registered name and none for another name,
\* each made by the constructor registered for its name, and after N receives
\* it has one for every registered name; every hand-off is a rendezvous: the
\* producer has constructed at most one item more than the consumer has taken.
C12_ServersEnumerates ==
    \A g \in Goroutines :
        LET st == streams[g] IN
        (st.pc # "none" /\ ~st.concurrent) =>
            /\ \A i \in 1..Len(st.recvd) :
                  /\ st.recvd[i].name \in DOMAIN st.snap
                  /\ st.recvd[i].of = st.snap[st.recvd[i].name]
                  /\ st.recvd[i].nth = i
            /\ \A i, j \in 1..Len(st.recvd) :
                  i # j => st.recvd[i].name # st.recvd[j].name
            /\ Len(st.recvd) = Cardinality(DOMAIN st.snap) =>
                  NamesOf(st.recvd) = DOMAIN st.snap
            /\ Cardinality(st.seen) =
                  Len(st.recvd) + (IF st.pc = "send" THEN 1 ELSE 0)

\* two names were registered and the consumer has received both instances
C12_Witness ==
    \E g \in Goroutines :
        /\ ~streams[g].concurrent
        /\ DOMAIN streams[g].snap = ServerNames
        /\ Len(streams[g].recvd) = 2
        /\ NamesOf(streams[g].recvd) = ServerNames

\* the producer of g's stream is inside its iteration over serverCtors
Iterating(g) == streams[g].pc \in {"range", "send"}

\* inside RegisterServer between its Lock and its Unlock
InRegisterServer(w) == frames[w].pc \in {"rs_assign", "rs_Unlock"}

\* C16: server enumeration is a concurrent-reader operation on the server
\* registry: in every interleaving of a Servers() call, the producer it
\* starts included, with concurrent RegisterServer calls, the producer's
\* iteration over the registered constructors never overlaps a RegisterServer
\* inside its critical section.
C16_EnumerationExcludesWriter ==
    \A g, w \in Goroutines : ~(Iterating(g) /\ InRegisterServer(w))

\* the consumer is at a receive and the producer has returned
BlockedConsumer(g) == frames[g].pc = "sv_recv" /\ streams[g].pc = "done"

\* the producer is at a send and the consumer has stopped receiving
BlockedProducer(g) ==
    streams[g].pc = "send" /\ frames[g].pc \notin {"sv_RUnlock", "sv_recv"}

\* C17: the stream returned by Servers() is never closed and carries no
\* end-of-stream signal: every item received is a constructed instance; the
\* producer has returned only after the consumer took an item for every name
\* the iteration began with; a consumer at a receive after the producer has
\* returned stays there forever; and a producer at a send whose consumer has
\* stopped receiving stays there forever.
C17_StreamNeverCloses ==
    [][\A g \in Goroutines :
        /\ \A i \in 1..Len(streams'[g].recvd) : streams'[g].recvd[i] # NoServer
        /\ streams'[g].pc = "done" =>
              /\ Len(streams'[g].recvd) = Cardinality(streams'[g].seen)
              /\ streams'[g].start \subseteq NamesOf(streams'[g].recvd)
        /\ BlockedConsumer(g) => BlockedConsumer(g)'
        /\ BlockedProducer(g) => BlockedProducer(g)']_vars

\* one consumer waits for an item after the last one while another has
\* stopped before the first and left its producer at the send
C17_Witness ==
    \E g, h \in Goroutines :
        /\ BlockedConsumer(g)
        /\ Len(streams[g].recvd) = Cardinality(DOMAIN serverCtors)
        /\ Len(streams[g].recvd) > 0
        /\ BlockedProducer(h)
        /\ frames[h].pc = "idle"

(***************************************************************************)
(* Further properties of Config                                            *)
(***************************************************************************)
\* C14: in every reachable state, Len() of a tree equals the number of its
\* keys other than the two reserved keys, whichever of the reserved keys are
\* present.
\* The same holds of each tree with its reserved keys replaced by any subset
\* of the two.
C14_LenExcludesReserved ==
    \A c \in DOMAIN heap :
        /\ ConfigLen(heap, c) = Cardinality(DOMAIN heap[c] \ Reserved)
        /\ \A S \in SUBSET Reserved :
              LET own == DOMAIN heap[c] \ Reserved
                  m == [k \in own \cup S |->
                          IF k \in DOMAIN heap[c] THEN heap[c][k] ELSE Str(k)]
              IN  ConfigLen([heap EXCEPT ![c] = m], c) = Cardinality(own)

\* the tree scoped to services.svc00 holds both reserved keys and two others
C14_Witness ==
    /\ IsExample
    /\ Svc00Id \in trees
    /\ Reserved \subseteq DOMAIN heap[Svc00Id]
    /\ Cardinality(DOMAIN heap[Svc00Id]) = 4
    /\ ConfigLen(heap, Svc00Id) = 2

\* the fields of the record el that decide for token t, by the scan in
\* declaration order: the name field when its text is t, another field when
\* its name is t
Deciding(el, t) ==
    {i \in 1..Len(el.flds) :
        IF EqualFold(txt.name, el.flds[i].n)
        THEN el.flds[i].v.t = "str" /\ EqualFold(t, el.flds[i].v.s)
        ELSE EqualFold(t, el.flds[i].n)}

Lowest(S) == CHOOSE i \in S : \A j \in S : i <= j
Highest(S) == CHOOSE i \in S : \A j \in S : i >= j

\* the element el of a sequence matches token t
Decides(h, el, t) ==
    \/ el.t \in {"map", "cfg"} /\ NamedBy(h, el, t)
    \/ el.t = "struct" /\ Deciding(el, t) # {}

\* what the matching element el gives for token t: a map named t itself; a
\* record by its first deciding field, itself when that is the name field and
\* the field's value otherwise
ElemYield(el, t) ==
    IF el.t = "struct"
    THEN LET f == el.flds[Lowest(Deciding(el, t))] IN
         IF EqualFold(txt.name, f.n) THEN el ELSE f.v
    ELSE el

\* the places of the elements of els that match t
Matching(h, els, t) == {i \in 1..Len(els) : Decides(h, derefValue(els[i]), t)}

\* the last Get returned what the tokens after the second resolve to from v:
\* v itself when there are none, the value of a matching key when there is
\* one and v is a map, and otherwise what the walk from v gives
ContinuesFrom(v) ==
    LET toks == Split(call.path, ".")
        rest == SubSeq(toks, 3, Len(toks))
    IN  IF rest = <<>> THEN call.ret = v
        ELSE IF Len(rest) = 1 /\ v.t = "map"
        THEN \/ call.ret \in {heap[v.id][k] : k \in {x \in DOMAIN heap[v.id] : EqualFold(rest[1], x)}}
             \/ /\ \A x \in DOMAIN heap[v.id] : ~EqualFold(rest[1], x)
                /\ Parent(heap, call.c) = NilConfig => call.ret = Nil
        ELSE \E ord \in Orders :
                LET inside == Walk(heap, ord, v, rest, 1) IN
                IF inside # Nil THEN call.ret = inside
                ELSE Parent(heap, call.c) = NilConfig => call.ret = Nil

\* the record held under key of the receiver, outside any sequence
TopRecord(key) ==
    /\ call.op = "Get"
    /\ Override(env, call.path) = <<>>
    /\ Len(Split(call.path, ".")) = 2
    /\ key \in DOMAIN heap[call.c]
    /\ EqualFold(Split(call.path, ".")[1], key)
    /\ derefValue(heap[call.c][key]).t = "struct"

\* C15 (as stated): inside a sequence both maps and records follow the
\* two-tier policy: an element whose name equals the token is selected whole,
\* before any other key/field of it that matches and whatever their order;
\* only if the name does not match does a key/field named as the token yield
\* its value. A record outside a sequence gets only the generic field match.
C15_TwoTierAsStated ==
    \A key \in DOMAIN heap[call.c] :
        SeqGet(key) =>
            LET els == heap[call.c][key].els
                t == Split(call.path, ".")[2]
                Generic(el) ==
                    IF el.t = "struct"
                    THEN {el.flds[i].v : i \in {j \in 1..Len(el.flds) : EqualFold(t, el.flds[j].n)}}
                    ELSE IF el.t \in {"map", "cfg"}
                    THEN {heap[el.id][k] : k \in {x \in DOMAIN heap[el.id] : EqualFold(t, x)}}
                    ELSE {}
                Hit == {i \in 1..Len(els) :
                          \/ NamedBy(heap, derefValue(els[i]), t)
                          \/ Generic(derefValue(els[i])) # {}}
            IN  Hit # {} =>
                    LET el == derefValue(els[Highest(Hit)]) IN
                    IF NamedBy(heap, el, t) THEN ContinuesFrom(el)
                    ELSE \E v \in Generic(el) : ContinuesFrom(v)

\* C15 (as amended): inside a sequence a map is selected whole when its name
\* equals the token and is otherwise not matched at all, none of its other
\* keys being tried; a record is scanned field by field in declaration order
\* and the first field that is its name field with the token as text (the
\* record is selected whole) or another field named as the token (the field's
\* value is yielded) decides. A record outside a sequence gets only the
\* generic field match: the value of its first field named as the token.
C15_TwoTier ==
    \A key \in DOMAIN heap[call.c] :
        /\ SeqGet(key) =>
              LET els == heap[call.c][key].els
                  t == Split(call.path, ".")[2]
                  M == Matching(heap, els, t)
              IN  IF M = {} THEN Parent(heap, call.c) = NilConfig => call.ret = Nil
                  ELSE ContinuesFrom(ElemYield(derefValue(els[Highest(M)]), t))
        /\ TopRecord(key) =>
              LET el == derefValue(heap[call.c][key])
                  t == Split(call.path, ".")[2]
                  F == {i \in 1..Len(el.flds) : EqualFold(t, el.flds[i].n)}
              IN  IF F = {} THEN Parent(heap, call.c) = NilConfig => call.ret = Nil
                  ELSE call.ret = el.flds[Lowest(F)].v

\* the record whose Hello field is declared before its Name field named hello
\* has given the value of the Hello field
C15_Witness ==
    /\ call.op = "Get"
    /\ ~IsExample
    /\ call.c = RootId
    /\ NoOverrides(env)
    /\ call.path = Dot(txt.items, txt.hello)
    /\ call.ret = Num(7)

\* C18: when more than one element of a sequence matches a path token, by name
\* or by a field's name, the scan does not stop at the first: the next
\* traversal step starts from what the last matching element gives; in a map
\* one matching key is taken, the first that the iteration meets.
C18_LastMatchWins ==
    \A key \in DOMAIN heap[call.c] :
        SeqGet(key) =>
            LET els == heap[call.c][key].els
                t == Split(call.path, ".")[2]
                M == Matching(heap, els, t)
            IN  Cardinality(M) > 1 =>
                    /\ ContinuesFrom(ElemYield(derefValue(els[Highest(M)]), t))
                    /\ ElemYield(derefValue(els[Lowest(M)]), t)
                         # ElemYield(derefValue(els[Highest(M)]), t)
                          => call.ret # ElemYield(derefValue(els[Lowest(M)]), t)

\* of the two maps named dup the last was taken, and of its two keys that
\* fold to rank the one in upper case
C18_Witness ==
    /\ call.op = "Get"
    /\ ~IsExample
    /\ call.c = RootId
    /\ NoOverrides(env)
    /\ call.path = Dot(Dot(txt.items, txt.dup), txt.rank)
    /\ call.ret = Num(3)

RECURSIVE Content(_, _)
\* what a value holds, whatever its shape in memory: a map or a record is its
\* keys or field names with their contents, the reserved keys left out; a
\* reference is what it points to
Content(h, v) ==
    LET d == derefValue(v) IN
    CASE d.t \in {"map", "cfg"} ->
            [t |-> "object",
             m |-> [k \in DOMAIN h[d.id] \ Reserved |-> Content(h, h[d.id][k])]]
      [] d.t = "struct" ->
            [t |-> "object",
             m |-> [k \in {d.flds[i].n : i \in 1..Len(d.flds)} |->
                      Content(h, (CHOOSE f \in Range(d.flds) : f.n = k).v)]]
      [] d.t = "slice" -> [t |-> "array", els |-> [i \in 1..Len(d.els) |-> Content(h, d.els[i])]]
      [] OTHER -> d

\* the contents Get may give for path p on tree c of heap h, over the orders
\* in which maps are ranged
Gives(h, c, p) == {Content(h, Get(h, env, ord, c, p)) : ord \in Orders}

\* text decodes to a tree that gives under Get, for every path tried, what
\* the receiver of the last call gives
DecodesToSame(text) ==
    LET d == Unmarshal(text) IN
    /\ d.ok
    /\ \A p \in GetPaths : Gives(d.h, d.c, p) = Gives(heap, call.c, p)

\* C13: for every tree, decoding the encoded text of the tree, compact or
\* indented, gives a tree that answers every Get of a path naming no reserved
\* key as the original does; indenting the compact text and compacting the
\* indented text again leave the decoded content the same.
C13_RoundTrip ==
    call.op = "MarshalJSON" =>
        /\ call.ret.t = "str"
        /\ DecodesToSame(call.ret.s)
        /\ DecodesToSame(Indent(call.ret.s))
        /\ DecodesToSame(Compact(Indent(call.ret.s)))
        /\ DecodesToSame(Indent(Compact(Indent(call.ret.s))))

====
